---- MODULE Spec2Model ----
(***************************************************************************)
(* Model of the draw-data acquisition and caching subsystem of             *)
(* lottery_analysis_assistant:                                             *)
(*   - DataSpider (src/src/data/spider.py): paced, retried fetches and the *)
(*     persisted rolling history file;                                     *)
(*   - CacheManager / LotteryAPIClient / LotteryDataFetcher                *)
(*     (src/src/data/cache_manager.py, api_client.py, fetcher.py): the     *)
(*     TTL cache and the cache-first acquisition operations;               *)
(*   - the acquisition prefix of run_analysis (src/src/main.py).           *)
(* Three specifications share the variables: Spec (the spider and its      *)
(* history file), FetcherSpec (the fetcher and its cache) and RetrySpec    *)
(* (one call of _fetch_with_retry, step by step).                          *)
(***************************************************************************)
EXTENDS Integers, Sequences, FiniteSets, TLC

VARIABLES
    remoteLatest,   \* number of the newest draw the remote source has published
    hist,           \* data/history/<type>.json: the persisted rolling history
    calls,          \* spider calls made so far (bounded by MaxCalls)
    newDraw,        \* a draw was published since the last spider call
    sp,             \* what the last spider call saw and did
    spPrev,         \* the same for the spider call before it
    cache,          \* data/cache/<type>/<kind>.json, one file per cache kind
    now,            \* datetime.now(), in hours
    fx,             \* what the last fetcher call saw and did
    rt,             \* one _fetch_with_retry call in progress
    pz,             \* one parse: the page or table given, the records emitted
    cdir,           \* data/cache/<type>/<cache_type>.json for both game types
    wr,             \* a save_cache between open(file, 'w') and the close
    cz,             \* what the CacheManager call that just returned saw and did
    uz              \* what the last call with another game type saw and did

vars == <<remoteLatest, hist, calls, newDraw, sp, spPrev, cache, now, fx, rt, pz,
         cdir, wr, cz, uz>>

spiderVars  == <<hist, calls, newDraw, sp, spPrev>>
fetcherVars == <<cache, now, fx>>
parserVars  == <<pz>>
managerVars == <<cdir, wr, cz>>
typedVars   == <<uz>>
baseVars    == <<remoteLatest, hist, calls, newDraw, sp, spPrev, cache, now, fx, rt>>

-----------------------------------------------------------------------------
(* Bounds of the model *)

FirstLatest == 40
MaxPublish == 1
MaxCalls == 2
MaxRetriesArg == 4
TickHours == 12
MaxTime == 36
MaxRows == 2
MaxSaves == 2
MaxTypedCalls == 2
MaxDraws == 2
MaxRecommendations == 1

(* Program constants *)

MaxRetries == 3
KeepCount == 29
WindowSize == 30
TtlHours == 24
DefaultPeriods == 30
OverFetch == 5
AnalysisPeriods == 30

-----------------------------------------------------------------------------
(* Sequences *)

Min(a, b) == IF a <= b THEN a ELSE b

Take(s, n) == SubSeq(s, 1, Min(n, Len(s)))

Range(s) == {s[i] : i \in 1..Len(s)}

-----------------------------------------------------------------------------
(* Period identifiers.  A period is a digit string; the two sites of the   *)
(* source write the same draw as "26040" (short) or "2026040" (long), both *)
(* matched by \d{5,8}.  n is the draw's running number.                    *)

ShortPeriod(n) == [fmt |-> "short", n |-> n]
LongPeriod(n) == [fmt |-> "long", n |-> n]
NoPeriod == [fmt |-> "none", n |-> 0]

\* int(period): the digit string read as a number
PeriodInt(p) ==
    IF p.fmt = "long" THEN 2026000 + p.n
    ELSE IF p.fmt = "short" THEN 26000 + p.n
    ELSE 0

-----------------------------------------------------------------------------
(* DataSpider._fetch_with_retry as a function of the outcomes of its       *)
(* attempts: "ok", "ratelimit" (status 409), "http_error", "timeout".      *)

Outcomes == {"ok", "ratelimit", "http_error", "timeout"}

RECURSIVE FetchFrom(_, _)
FetchFrom(run, attempt) ==
    IF attempt >= MaxRetries THEN [ok |-> FALSE, requests |-> attempt]
    ELSE IF run[attempt + 1] = "ok" THEN [ok |-> TRUE, requests |-> attempt + 1]
    ELSE FetchFrom(run, attempt + 1)

FetchWithRetry(run) == FetchFrom(run, 0)

\* the runs of attempts the spider's calls are checked against: one that
\* succeeds on its second attempt, one that exhausts the retries
FetchRuns ==
    { <<"timeout", "ok">>,
      <<"ratelimit", "timeout", "http_error">> }

-----------------------------------------------------------------------------
(* The remote source, as seen by the spider *)

\* the links /ssq/<period>.shtml a landing page carries: none, only the draw
\* before the newest (a stale page), the newest too, or the newest also in
\* the long format
LandingPages(latest) ==
    { {},
      {ShortPeriod(latest - 1)},
      {ShortPeriod(latest - 1), ShortPeriod(latest)},
      {ShortPeriod(latest - 1), ShortPeriod(latest), LongPeriod(latest)} }

\* a data row of table#tablelist: its period cell and the number of its six
\* red-ball cells that are numeric
DataRow(n) == [period |-> ShortPeriod(n), isdigit |-> TRUE, reds |-> 6]
ShortRow(n) == [period |-> ShortPeriod(n), isdigit |-> TRUE, reds |-> 5]
SummaryRow == [period |-> NoPeriod, isdigit |-> FALSE, reds |-> 0]

RowsDesc(n, count) == SubSeq([i \in 1..count |-> DataRow(n - i + 1)], 1, count)
RowsAsc(n, count) == SubSeq([i \in 1..count |-> DataRow(n - count + i)], 1, count)

TableVariants == {"desc", "asc", "dup", "summary", "short", "empty", "lag"}

\* the rows (after the two header rows) the history endpoint answers with for
\* ?start=<start>&end=<latest>
RemoteTable(start, latest, variant) ==
    LET count == PeriodInt(latest) - start + 1
        n == latest.n
    IN  CASE variant = "desc" -> RowsDesc(n, count)
          [] variant = "asc" -> RowsAsc(n, count)
          [] variant = "dup" -> RowsDesc(n, count) \o <<DataRow(n)>>
          [] variant = "summary" -> <<SummaryRow>> \o RowsDesc(n, count)
          [] variant = "short" -> <<ShortRow(n)>> \o RowsDesc(n - 1, count - 1)
          [] variant = "lag" -> RowsDesc(n - 1, count)
          [] OTHER -> <<>>

-----------------------------------------------------------------------------
(* DataSpider: parsing, the history file, the acquisition operations.      *)
(* A draw record is modelled by its period.                                *)

RowIsRecord(row) == row.isdigit /\ row.reds = 6

\* one record per row that passes the checks, in the table's order
ParseSsqTable(rows) ==
    LET kept == SelectSeq(rows, RowIsRecord)
    IN  SubSeq([i \in 1..Len(kept) |-> kept[i].period], 1, Len(kept))

GetLatestPeriod(fetched, links) ==
    IF ~fetched.ok \/ links = {} THEN NoPeriod
    ELSE CHOOSE p \in links : \A q \in links : PeriodInt(q) <= PeriodInt(p)

\* history.sort(key=int(period), reverse=True): a stable sort, as an insertion
\* sort.  x goes behind the elements of the sorted s whose key is at least
\* its own, which are a prefix of s.
InsertDesc(x, s) ==
    LET k == PeriodInt(x)
        p == Cardinality({j \in 1..Len(s) : PeriodInt(s[j]) >= k})
    IN  SubSeq(s, 1, p) \o <<x>> \o SubSeq(s, p + 1, Len(s))

RECURSIVE SortFrom(_, _, _)
SortFrom(s, i, acc) ==
    IF i > Len(s) THEN acc ELSE SortFrom(s, i + 1, InsertDesc(s[i], acc))

SortDesc(s) == SortFrom(s, 1, <<>>)

FetchHistory(periods, run1, links, run2, variant) ==
    LET f1 == FetchWithRetry(run1)
        latest == GetLatestPeriod(f1, links)
    IN  IF latest = NoPeriod
        THEN [outcome |-> "no_latest", ret |-> <<>>, requests |-> f1.requests]
        ELSE LET start == PeriodInt(latest) - periods + 1
                 f2 == FetchWithRetry(run2)
             IN  IF ~f2.ok
                 THEN [outcome |-> "fetch_failed", ret |-> <<>>,
                       requests |-> f1.requests + f2.requests]
                 ELSE [outcome |-> "fetched",
                       ret |-> SortDesc(ParseSsqTable(RemoteTable(start, latest, variant))),
                       requests |-> f1.requests + f2.requests]

UpToDate(existing, latest) == Len(existing) > 0 /\ existing[1] = latest

PrependKeepWindow(new, existing) == <<new>> \o Take(existing, WindowSize)

Prepend(new, existing) == <<new>> \o Take(existing, KeepCount)

ReturnExistingEmpty(existing, outcome, latest, requests) ==
    [outcome |-> outcome, ret |-> <<>>, save |-> FALSE, latest |-> latest,
     new |-> NoPeriod, requests |-> requests]

ReturnExisting(existing, outcome, latest, requests) ==
    [outcome |-> outcome, ret |-> existing, save |-> FALSE, latest |-> latest,
     new |-> NoPeriod, requests |-> requests]

UpdateToLatest(existing, run1, links, run2, variant) ==
    LET f1 == FetchWithRetry(run1)
        latest == GetLatestPeriod(f1, links)
    IN  IF latest = NoPeriod
        THEN ReturnExisting(existing, "no_latest", latest, f1.requests)
        ELSE IF UpToDate(existing, latest)
        THEN ReturnExisting(existing, "up_to_date", latest, f1.requests)
        ELSE LET f2 == FetchWithRetry(run2)
                 requests == f1.requests + f2.requests
                 parsed == ParseSsqTable(RemoteTable(PeriodInt(latest), latest, variant))
             IN  IF ~f2.ok
                 THEN ReturnExisting(existing, "fetch_failed", latest, requests)
                 ELSE IF parsed = <<>>
                 THEN ReturnExisting(existing, "parse_failed", latest, requests)
                 ELSE [outcome |-> "updated", ret |-> Prepend(parsed[1], existing),
                       save |-> TRUE, latest |-> latest, new |-> parsed[1],
                       requests |-> requests]

InitializeDataSavesEmpty(existing, periods, run1, links, run2, variant) ==
    IF existing # <<>>
    THEN [outcome |-> "existing", ret |-> existing, save |-> FALSE, requests |-> 0]
    ELSE LET h == FetchHistory(periods, run1, links, run2, variant)
         IN  [outcome |-> h.outcome, ret |-> h.ret, save |-> TRUE,
              requests |-> h.requests]

InitializeData(existing, periods, run1, links, run2, variant) ==
    IF existing # <<>>
    THEN [outcome |-> "existing", ret |-> existing, save |-> FALSE, requests |-> 0]
    ELSE LET h == FetchHistory(periods, run1, links, run2, variant)
         IN  [outcome |-> h.outcome, ret |-> h.ret, save |-> h.ret # <<>>,
              requests |-> h.requests]

-----------------------------------------------------------------------------
(* Spider calls *)

NoCall ==
    [op |-> "none", outcome |-> "none", prior |-> <<>>, ret |-> <<>>,
     wrote |-> FALSE, latest |-> NoPeriod, new |-> NoPeriod, requests |-> 0,
     afterPublish |-> FALSE]

\* what the next call needs of the call before it
Remembered(call) ==
    [op |-> call.op, outcome |-> call.outcome, ret |-> call.ret,
     latest |-> call.latest, new |-> call.new]

PeriodsArgs == {2, WindowSize, WindowSize + 1}

\* the second request of a call is answered only when the call makes it
TableAnswers(asked) ==
    IF asked THEN FetchRuns \X TableVariants
    ELSE {<<CHOOSE run \in FetchRuns : TRUE, "empty">>}

AsksForTable(existing, run1, links) ==
    LET latest == GetLatestPeriod(FetchWithRetry(run1), links)
    IN  latest # NoPeriod /\ ~UpToDate(existing, latest)

UpdateToLatestCall ==
    /\ calls < MaxCalls
    /\ \E run1 \in FetchRuns, links \in LandingPages(remoteLatest) :
       \E answer \in TableAnswers(AsksForTable(hist, run1, links)) :
          \E r \in {UpdateToLatest(hist, run1, links, answer[1], answer[2])} :
              /\ hist' = IF r.save THEN r.ret ELSE hist
              /\ sp' = [op |-> "update_to_latest", outcome |-> r.outcome,
                        prior |-> hist, ret |-> r.ret, wrote |-> r.save,
                        latest |-> r.latest, new |-> r.new,
                        requests |-> r.requests, afterPublish |-> newDraw]
    /\ spPrev' = Remembered(sp)
    /\ calls' = calls + 1
    /\ newDraw' = FALSE
    /\ UNCHANGED <<remoteLatest, cache, now, fx, rt>>
    /\ UNCHANGED parserVars
    /\ UNCHANGED typedVars
    /\ UNCHANGED managerVars

InitializeDataCall ==
    /\ calls < MaxCalls
    /\ \E periods \in PeriodsArgs :
       \E run1 \in IF hist = <<>> THEN FetchRuns ELSE {CHOOSE run \in FetchRuns : TRUE},
          links \in IF hist = <<>> THEN LandingPages(remoteLatest) ELSE {{}} :
       \E answer \in TableAnswers(hist = <<>> /\ AsksForTable(hist, run1, links)) :
          \E r \in {InitializeData(hist, periods, run1, links, answer[1], answer[2])} :
              /\ hist' = IF r.save THEN r.ret ELSE hist
              /\ sp' = [op |-> "initialize_data", outcome |-> r.outcome,
                        prior |-> hist, ret |-> r.ret, wrote |-> r.save,
                        latest |-> NoPeriod, new |-> NoPeriod,
                        requests |-> r.requests, afterPublish |-> newDraw]
    /\ spPrev' = Remembered(sp)
    /\ calls' = calls + 1
    /\ newDraw' = FALSE
    /\ UNCHANGED <<remoteLatest, cache, now, fx, rt>>
    /\ UNCHANGED parserVars
    /\ UNCHANGED typedVars
    /\ UNCHANGED managerVars

\* the remote source publishes the next draw
Publish ==
    /\ remoteLatest < FirstLatest + MaxPublish
    /\ remoteLatest' = remoteLatest + 1
    /\ newDraw' = TRUE
    /\ UNCHANGED <<hist, calls, sp, spPrev, cache, now, fx, rt>>
    /\ UNCHANGED parserVars
    /\ UNCHANGED typedVars
    /\ UNCHANGED managerVars


-----------------------------------------------------------------------------
(* CacheManager.  A cache file is absent, unreadable (json.load or         *)
(* fromisoformat raises) or holds {data, timestamp}; hasTs is FALSE when   *)
(* the timestamp field is missing.                                         *)

AbsentFile == [st |-> "absent", data |-> <<>>, ts |-> 0, hasTs |-> FALSE]
UnreadableFile == [st |-> "unreadable", data |-> <<>>, ts |-> 0, hasTs |-> FALSE]

LatestKey == [kind |-> "latest", n |-> 0]
HistoryKey(periods) == [kind |-> "history", n |-> periods]

IsCacheValidUnparsed(file, t) ==
    IF file.st = "absent" THEN FALSE
    ELSE IF file.st = "unreadable" THEN TRUE
    ELSE IF ~file.hasTs THEN FALSE
    ELSE (t - file.ts) < TtlHours

IsCacheValidInclusive(file, t) ==
    IF file.st = "absent" THEN FALSE
    ELSE IF file.st = "unreadable" THEN FALSE
    ELSE IF ~file.hasTs THEN FALSE
    ELSE (t - file.ts) <= TtlHours

IsCacheValid(file, t) ==
    IF file.st = "absent" THEN FALSE
    ELSE IF file.st = "unreadable" THEN FALSE
    ELSE IF ~file.hasTs THEN FALSE
    ELSE (t - file.ts) < TtlHours

SaveCache(data, t) == [st |-> "ok", data |-> data, ts |-> t, hasTs |-> TRUE]

\* load_cache: [some |-> FALSE] is None
LoadCache(file) ==
    IF file.st = "ok" THEN [some |-> TRUE, data |-> file.data]
    ELSE [some |-> FALSE, data |-> <<>>]

\* Python truth of an optional list: neither None nor empty
Truthy(opt) == opt.some /\ opt.data # <<>>

NoneValue == [some |-> FALSE, data |-> <<>>]
SomeValue(data) == [some |-> TRUE, data |-> data]

-----------------------------------------------------------------------------
(* LotteryAPIClient.  A response either fails (request error, bad JSON,    *)
(* code # 1) or lists the n newest draws; an API record is modelled by its *)
(* period number.                                                          *)

NewestDraws(latest, n) == [i \in 1..n |-> latest - i + 1]

ApiResponses(limit) ==
    {[ok |-> FALSE, n |-> 0]} \cup
    {[ok |-> TRUE, n |-> k] : k \in {0, 1, limit, limit + 1}}

ApiFetchData(resp, latest) ==
    IF resp.ok THEN SomeValue(NewestDraws(latest, resp.n)) ELSE NoneValue

\* fetch_latest: records[0] if records else None, as a list of at most one
ApiFetchLatest(resp, latest) ==
    LET records == ApiFetchData(resp, latest)
    IN  IF Truthy(records) THEN SomeValue(<<records.data[1]>>) ELSE NoneValue

-----------------------------------------------------------------------------
(* LotteryDataFetcher.  Each operation yields its return value, the cache  *)
(* it leaves, and the requests and cache writes it made.                   *)

EffectivePeriods(periods) == IF periods = 0 THEN DefaultPeriods ELSE periods

CacheHitStrict(file, t, periods) ==
    IsCacheValid(file, t) /\ Truthy(LoadCache(file)) /\ Len(file.data) > periods

CacheHit(file, t, periods) ==
    IsCacheValid(file, t) /\ Truthy(LoadCache(file)) /\ Len(file.data) >= periods

StaleFallbackNone(cached, periods) == NoneValue

\* the API failed: the cached data whatever its age, else None
StaleFallback(cached, periods) ==
    IF Truthy(cached)
    THEN SomeValue(IF Len(cached.data) >= periods
                   THEN Take(cached.data, periods)
                   ELSE cached.data)
    ELSE NoneValue

FetchData(c, t, periodsArg, resp, latest) ==
    LET periods == EffectivePeriods(periodsArg)
        key == HistoryKey(periods)
    IN  IF CacheHit(c[key], t, periods)
        THEN [ret |-> SomeValue(Take(c[key].data, periods)), cache |-> c,
              path |-> "hit", requests |-> 0, writes |-> 0]
        ELSE LET api == ApiFetchData(resp, latest)
                 stale == StaleFallback(LoadCache(c[key]), periods)
             IN  IF ~Truthy(api)
                 THEN [ret |-> stale, cache |-> c,
                       path |-> IF stale.some THEN "stale" ELSE "absent",
                       requests |-> 1, writes |-> 0]
                 ELSE [ret |-> api,
                       cache |-> [c EXCEPT ![key] = SaveCache(api.data, t)],
                       path |-> "fetched", requests |-> 1, writes |-> 1]

FetchLatestSavesFailure(c, t, resp, latest) ==
    IF IsCacheValid(c[LatestKey], t) /\ Truthy(LoadCache(c[LatestKey]))
    THEN [ret |-> LoadCache(c[LatestKey]), cache |-> c, path |-> "hit",
          requests |-> 0, writes |-> 0]
    ELSE LET got == ApiFetchLatest(resp, latest)
         IN  [ret |-> got,
              cache |-> [c EXCEPT ![LatestKey] = SaveCache(got.data, t)],
              path |-> IF Truthy(got) THEN "fetched" ELSE "absent",
              requests |-> 1, writes |-> 1]

FetchLatest(c, t, resp, latest) ==
    IF IsCacheValid(c[LatestKey], t) /\ Truthy(LoadCache(c[LatestKey]))
    THEN [ret |-> LoadCache(c[LatestKey]), cache |-> c, path |-> "hit",
          requests |-> 0, writes |-> 0]
    ELSE LET got == ApiFetchLatest(resp, latest)
         IN  IF Truthy(got)
             THEN [ret |-> got,
                   cache |-> [c EXCEPT ![LatestKey] = SaveCache(got.data, t)],
                   path |-> "fetched", requests |-> 1, writes |-> 1]
             ELSE [ret |-> NoneValue, cache |-> c, path |-> "absent",
                   requests |-> 1, writes |-> 0]

ExcludeLatest(data, periods) == SubSeq(data, 2, Min(periods + 1, Len(data)))

GetAnalysisData(c, t, periodsArg, resp, latest) ==
    LET periods == EffectivePeriods(periodsArg)
        all == FetchData(c, t, periods + OverFetch, resp, latest)
    IN  IF ~Truthy(all.ret) \/ Len(all.ret.data) < 2
        THEN [ret |-> all.ret, all |-> all.ret, cache |-> all.cache,
              path |-> all.path, requests |-> all.requests, writes |-> all.writes]
        ELSE [ret |-> SomeValue(ExcludeLatest(all.ret.data, periods)),
              all |-> all.ret, cache |-> all.cache, path |-> all.path,
              requests |-> all.requests, writes |-> all.writes]

\* run_analysis up to the analysis data: the previous draw, then the history
RunAnalysis(c, t, resp1, resp2, latest) ==
    LET prev == FetchLatest(c, t, resp1, latest)
    IN  IF ~Truthy(prev.ret)
        THEN [previous |-> prev.ret, analysis |-> NoneValue, all |-> NoneValue,
              cache |-> prev.cache, path |-> "no_previous",
              requests |-> prev.requests, writes |-> prev.writes]
        ELSE LET an == GetAnalysisData(prev.cache, t, AnalysisPeriods, resp2, latest)
             IN  [previous |-> prev.ret, analysis |-> an.ret, all |-> an.all,
                  cache |-> an.cache, path |-> an.path,
                  requests |-> prev.requests + an.requests,
                  writes |-> prev.writes + an.writes]

-----------------------------------------------------------------------------
(* Fetcher calls *)

\* fetch_data is called with the number of periods get_analysis_data asks for
FetchPeriodsArgs == {AnalysisPeriods + OverFetch}

CacheKeys ==
    {LatestKey} \cup {HistoryKey(EffectivePeriods(p)) : p \in FetchPeriodsArgs}

NoResponse == [ok |-> FALSE, n |-> 0]

\* the API answers only the requests that are made
ApiAnswers(asked, limit) == IF asked THEN ApiResponses(limit) ELSE {NoResponse}

NoFetch ==
    [op |-> "none", periods |-> 0, pre |-> AbsentFile, post |-> AbsentFile,
     at |-> 0,
     resp |-> NoResponse, ret |-> NoneValue, previous |-> NoneValue,
     all |-> NoneValue, path |-> "none", requests |-> 0, writes |-> 0,
     spiderRequests |-> 0]

LatestAsked(c, t) ==
    ~(IsCacheValid(c[LatestKey], t) /\ Truthy(LoadCache(c[LatestKey])))

HistoryAsked(c, t, periods) == ~CacheHit(c[HistoryKey(periods)], t, periods)

FetchDataCall ==
    /\ \E periods \in FetchPeriodsArgs :
       \E resp \in ApiAnswers(HistoryAsked(cache, now, EffectivePeriods(periods)),
                              EffectivePeriods(periods)) :
       \E r \in {FetchData(cache, now, periods, resp, remoteLatest)} :
          /\ cache' = r.cache
          /\ fx' = [op |-> "fetch_data", periods |-> EffectivePeriods(periods),
                    pre |-> cache[HistoryKey(EffectivePeriods(periods))],
                    post |-> r.cache[HistoryKey(EffectivePeriods(periods))],
                    at |-> now, resp |-> resp, ret |-> r.ret,
                    previous |-> NoneValue, all |-> r.ret, path |-> r.path,
                    requests |-> r.requests, writes |-> r.writes,
                    spiderRequests |-> 0]
    /\ UNCHANGED <<remoteLatest, now, rt>>
    /\ UNCHANGED spiderVars
    /\ UNCHANGED parserVars
    /\ UNCHANGED typedVars
    /\ UNCHANGED managerVars

FetchLatestCall ==
    /\ \E resp \in ApiAnswers(LatestAsked(cache, now), 1) :
       \E r \in {FetchLatest(cache, now, resp, remoteLatest)} :
          /\ cache' = r.cache
          /\ fx' = [op |-> "fetch_latest", periods |-> 1, pre |-> cache[LatestKey],
                    post |-> r.cache[LatestKey],
                    at |-> now, resp |-> resp, ret |-> r.ret,
                    previous |-> NoneValue, all |-> NoneValue, path |-> r.path,
                    requests |-> r.requests, writes |-> r.writes,
                    spiderRequests |-> 0]
    /\ UNCHANGED <<remoteLatest, now, rt>>
    /\ UNCHANGED spiderVars
    /\ UNCHANGED parserVars
    /\ UNCHANGED typedVars
    /\ UNCHANGED managerVars

RunAnalysisCall ==
    /\ \E resp1 \in ApiAnswers(LatestAsked(cache, now), 1) :
       \E resp2 \in ApiAnswers(
              Truthy(FetchLatest(cache, now, resp1, remoteLatest).ret)
              /\ HistoryAsked(cache, now, AnalysisPeriods + OverFetch),
              AnalysisPeriods + OverFetch) :
       \E r \in {RunAnalysis(cache, now, resp1, resp2, remoteLatest)} :
          /\ cache' = r.cache
          /\ fx' = [op |-> "run_analysis", periods |-> AnalysisPeriods,
                    pre |-> cache[LatestKey], post |-> r.cache[LatestKey],
                    at |-> now, resp |-> resp2,
                    ret |-> r.analysis, previous |-> r.previous, all |-> r.all,
                    path |-> r.path, requests |-> r.requests,
                    writes |-> r.writes, spiderRequests |-> 0]
    /\ UNCHANGED <<remoteLatest, now, rt>>
    /\ UNCHANGED spiderVars
    /\ UNCHANGED parserVars
    /\ UNCHANGED typedVars
    /\ UNCHANGED managerVars

\* the clock advances
Tick ==
    /\ now + TickHours <= MaxTime
    /\ now' = now + TickHours
    /\ UNCHANGED <<remoteLatest, cache, fx, rt>>
    /\ UNCHANGED spiderVars
    /\ UNCHANGED parserVars
    /\ UNCHANGED typedVars
    /\ UNCHANGED managerVars

\* a cache file is damaged on disk: it becomes unparseable, or loses its
\* timestamp field
CorruptCache ==
    /\ \E k \in CacheKeys :
          /\ cache[k].st = "ok"
          /\ \/ cache' = [cache EXCEPT ![k] = UnreadableFile]
             \/ /\ cache[k].hasTs
                /\ cache' = [cache EXCEPT ![k] = [@ EXCEPT !.hasTs = FALSE, !.ts = 0]]
    /\ UNCHANGED <<remoteLatest, now, fx, rt>>
    /\ UNCHANGED spiderVars
    /\ UNCHANGED parserVars
    /\ UNCHANGED typedVars
    /\ UNCHANGED managerVars

PublishDraw ==
    /\ remoteLatest < FirstLatest + MaxPublish
    /\ remoteLatest' = remoteLatest + 1
    /\ UNCHANGED <<cache, now, fx, rt>>
    /\ UNCHANGED spiderVars
    /\ UNCHANGED parserVars
    /\ UNCHANGED typedVars
    /\ UNCHANGED managerVars


-----------------------------------------------------------------------------
(* One call of DataSpider._fetch_with_retry, step by step.                 *)
(* rt.pc: "delay" (top of the loop), "request" (after _random_delay),      *)
(* "returned".  rt.waits lists the backoff sleeps made so far, rt.seen the *)
(* outcomes of the attempts made so far.                                   *)

RateLimitWaitFlat(attempt) == 5

RateLimitWait(attempt) == 5 * (attempt + 1)

ErrorWait(attempt) == 3 * (attempt + 1)

RetryStart(max) ==
    [pc |-> "delay", max |-> max, attempt |-> 0, paced |-> 0, requests |-> 0,
     waits |-> <<>>, seen |-> <<>>, result |-> "pending"]

RetryPaceFirstOnly ==
    /\ rt.pc = "delay"
    /\ rt.attempt < rt.max
    /\ rt' = [rt EXCEPT !.pc = "request",
                        !.paced = IF rt.attempt = 0 THEN @ + 1 ELSE @]
    /\ UNCHANGED <<remoteLatest, cache, now, fx>>
    /\ UNCHANGED spiderVars
    /\ UNCHANGED parserVars
    /\ UNCHANGED typedVars
    /\ UNCHANGED managerVars

\* for attempt in range(max_retries): _random_delay()
RetryPace ==
    /\ rt.pc = "delay"
    /\ rt.attempt < rt.max
    /\ rt' = [rt EXCEPT !.pc = "request", !.paced = @ + 1]
    /\ UNCHANGED <<remoteLatest, cache, now, fx>>
    /\ UNCHANGED spiderVars
    /\ UNCHANGED parserVars
    /\ UNCHANGED typedVars
    /\ UNCHANGED managerVars

\* session.get and what follows it in the loop body
RetryRequest ==
    /\ rt.pc = "request"
    /\ \E outcome \in Outcomes :
          LET seen == Append(rt.seen, outcome)
          IN  rt' = CASE outcome = "ok" ->
                         [rt EXCEPT !.pc = "returned", !.requests = @ + 1,
                                    !.seen = seen, !.result = "content"]
                      [] outcome = "ratelimit" ->
                         [rt EXCEPT !.pc = "delay", !.requests = @ + 1,
                                    !.seen = seen, !.attempt = @ + 1,
                                    !.waits = Append(@, RateLimitWait(rt.attempt))]
                      [] OTHER ->
                         [rt EXCEPT !.pc = "delay", !.requests = @ + 1,
                                    !.seen = seen, !.attempt = @ + 1,
                                    !.waits = IF rt.attempt < rt.max - 1
                                              THEN Append(@, ErrorWait(rt.attempt))
                                              ELSE @]
    /\ UNCHANGED <<remoteLatest, cache, now, fx>>
    /\ UNCHANGED spiderVars
    /\ UNCHANGED parserVars
    /\ UNCHANGED typedVars
    /\ UNCHANGED managerVars

\* the loop is exhausted: return None
RetryExhausted ==
    /\ rt.pc = "delay"
    /\ rt.attempt >= rt.max
    /\ rt' = [rt EXCEPT !.pc = "returned", !.result = "None"]
    /\ UNCHANGED <<remoteLatest, cache, now, fx>>
    /\ UNCHANGED spiderVars
    /\ UNCHANGED parserVars
    /\ UNCHANGED typedVars
    /\ UNCHANGED managerVars

-----------------------------------------------------------------------------
(* The record parsers on the cells of a row and the balls of a page.       *)
(* A cell is its text: digits only (with the value int() gives it) or      *)
(* anything else.  A row is the number of its <td> cells, its first cell   *)
(* and the seven ball cells after it (cells[1..7]).                        *)

DigitCell(v) == [digit |-> TRUE, v |-> v]
TextCell == [digit |-> FALSE, v |-> 0]

GameTypes == {"ssq", "dlt"}

IsDigit(cell) == cell.digit

\* [int(text) for the cells whose text.isdigit()]
CellInts(cells) ==
    LET kept == SelectSeq(cells, IsDigit)
    IN  SubSeq([i \in 1..Len(kept) |-> kept[i].v], 1, Len(kept))

\* sorted(xs)
InsertAsc(x, s) ==
    LET p == Cardinality({j \in 1..Len(s) : s[j] <= x})
    IN  SubSeq(s, 1, p) \o <<x>> \o SubSeq(s, p + 1, Len(s))

RECURSIVE SortedFrom(_, _, _)
SortedFrom(s, i, acc) ==
    IF i > Len(s) THEN acc ELSE SortedFrom(s, i + 1, InsertAsc(s[i], acc))

Sorted(s) == SortedFrom(s, 1, <<>>)

BlueOfCell(cell) == IF cell.digit THEN cell.v ELSE 0

\* the body of the row loop of _parse_ssq_table: the records the row adds
SsqRowRecords(row) ==
    IF row.ncells < 8 THEN <<>>
    ELSE IF ~row.period.digit THEN <<>>
    ELSE LET reds == CellInts(SubSeq(row.balls, 1, 6))
         IN  IF Len(reds) # 6 THEN <<>>
             ELSE <<[lottery_type |-> "ssq", period |-> row.period.v,
                     red_balls |-> Sorted(reds),
                     blue_ball |-> BlueOfCell(row.balls[7])]>>

\* the body of the row loop of _parse_dlt_table
DltRowRecords(row) ==
    IF row.ncells < 8 THEN <<>>
    ELSE IF ~row.period.digit THEN <<>>
    ELSE LET fronts == CellInts(SubSeq(row.balls, 1, 5))
             backs == CellInts(SubSeq(row.balls, 6, 7))
         IN  IF Len(fronts) # 5 THEN <<>>
             ELSE IF Len(backs) # 2 THEN <<>>
             ELSE <<[lottery_type |-> "dlt", period |-> row.period.v,
                     front_balls |-> Sorted(fronts),
                     back_balls |-> Sorted(backs)]>>

RowRecords(type, row) ==
    IF type = "ssq" THEN SsqRowRecords(row) ELSE DltRowRecords(row)

RECURSIVE ParseRowsFrom(_, _, _)
ParseRowsFrom(type, rows, i) ==
    IF i > Len(rows) THEN <<>>
    ELSE RowRecords(type, rows[i]) \o ParseRowsFrom(type, rows, i + 1)

\* _parse_ssq_table / _parse_dlt_table: for row in rows[2:]
ParseTable(type, rows) == ParseRowsFrom(type, rows, 3)

\* history.sort(key=lambda x: int(x.get('period', 0)), reverse=True)
InsertByPeriod(x, s) ==
    LET p == Cardinality({j \in 1..Len(s) : s[j].period >= x.period})
    IN  SubSeq(s, 1, p) \o <<x>> \o SubSeq(s, p + 1, Len(s))

RECURSIVE SortByPeriodFrom(_, _, _)
SortByPeriodFrom(s, i, acc) ==
    IF i > Len(s) THEN acc
    ELSE SortByPeriodFrom(s, i + 1, InsertByPeriod(s[i], acc))

\* fetch_history after the request: parse, then sort
ParsedHistory(type, rows) == SortByPeriodFrom(ParseTable(type, rows), 1, <<>>)

\* _parse_ssq_page on the two-digit numbers found by the ball pattern
ParseSsqPage(period, balls) ==
    IF Len(balls) >= 7
    THEN <<[lottery_type |-> "ssq", period |-> period,
            red_balls |-> Sorted(SubSeq(balls, 1, 6)), blue_ball |-> balls[7]]>>
    ELSE IF Len(balls) >= 6
    THEN <<[lottery_type |-> "ssq", period |-> period,
            red_balls |-> Sorted(SubSeq(balls, 1, 6)), blue_ball |-> 0]>>
    ELSE <<>>

\* _parse_dlt_page
ParseDltPage(period, balls) ==
    IF Len(balls) >= 7
    THEN <<[lottery_type |-> "dlt", period |-> period,
            front_balls |-> Sorted(SubSeq(balls, 1, 5)),
            back_balls |-> Sorted(SubSeq(balls, 6, 7))]>>
    ELSE IF Len(balls) >= 5
    THEN <<[lottery_type |-> "dlt", period |-> period,
            front_balls |-> Sorted(SubSeq(balls, 1, 5)), back_balls |-> <<>>]>>
    ELSE <<>>

ParsePage(type, period, balls) ==
    IF type = "ssq" THEN ParseSsqPage(period, balls) ELSE ParseDltPage(period, balls)

(* Inputs of the parsers *)

\* ball cells that make a draw of either game, out of order
DrawCells ==
    <<DigitCell(3), DigitCell(1), DigitCell(9), DigitCell(12), DigitCell(20),
      DigitCell(11), DigitCell(7)>>

RowDefects ==
    {"none", "short", "period_text", "red_text", "sixth_text", "last_text",
     "dup", "zero", "high", "last_high"}

\* a table row of the given period with one defect
TableRow(period, defect) ==
    [ncells |-> IF defect = "short" THEN 7 ELSE 16,
     period |-> IF defect = "period_text" THEN TextCell ELSE DigitCell(period),
     balls |-> CASE defect = "red_text" -> [DrawCells EXCEPT ![2] = TextCell]
                 [] defect = "sixth_text" -> [DrawCells EXCEPT ![6] = TextCell]
                 [] defect = "last_text" -> [DrawCells EXCEPT ![7] = TextCell]
                 [] defect = "dup" -> [DrawCells EXCEPT ![2] = DigitCell(3)]
                 [] defect = "zero" -> [DrawCells EXCEPT ![1] = DigitCell(0)]
                 [] defect = "high" -> [DrawCells EXCEPT ![1] = DigitCell(40)]
                 [] defect = "last_high" -> [DrawCells EXCEPT ![7] = DigitCell(17)]
                 [] OTHER -> DrawCells]

HeaderRow == [ncells |-> 0, period |-> TextCell, balls |-> <<>>]

\* the rows of a table: two leading rows, then up to MaxRows rows whose
\* periods run upward or downward
TableInputs ==
    {<<HeaderRow, second>> \o body :
        second \in {HeaderRow, TableRow(FirstLatest, "none")},
        body \in UNION {
            {[i \in 1..n |-> TableRow(IF up THEN FirstLatest - n + i
                                      ELSE FirstLatest - i + 1, d[i])] :
                d \in [1..n -> RowDefects], up \in BOOLEAN}
            : n \in 0..MaxRows}}

\* the numbers a page shows in its ball elements
PageInputs ==
    {<<>>, <<3, 1, 9, 12>>, <<3, 1, 9, 12, 20>>, <<3, 1, 9, 12, 20, 11>>,
     <<3, 1, 9, 12, 20, 11, 7>>, <<3, 1, 9, 12, 20, 11, 7, 2>>,
     <<3, 3, 9, 12, 20, 11, 7>>, <<0, 1, 9, 12, 20, 11, 7>>,
     <<40, 1, 9, 12, 20, 11, 7>>, <<3, 1, 9, 12, 20, 11, 17>>,
     <<3, 1, 9, 12, 20, 7, 7>>}

NoParse ==
    [op |-> "none", kind |-> "none", type |-> "ssq", rows |-> <<>>,
     balls |-> <<>>, out |-> <<>>]

\* _parse_ssq_table / _parse_dlt_table on a table
ParseTableCall ==
    /\ pz.op = "none"
    /\ pz.kind = "table"
    /\ pz' = [pz EXCEPT !.op = "parse_table", !.out = ParseTable(pz.type, pz.rows)]
    /\ UNCHANGED baseVars
    /\ UNCHANGED managerVars
    /\ UNCHANGED typedVars

\* fetch_history from the answer of the history endpoint on
FetchHistoryParse ==
    /\ pz.op = "none"
    /\ pz.kind = "table"
    /\ pz' = [pz EXCEPT !.op = "fetch_history",
                        !.out = ParsedHistory(pz.type, pz.rows)]
    /\ UNCHANGED baseVars
    /\ UNCHANGED managerVars
    /\ UNCHANGED typedVars

\* _parse_ssq_page / _parse_dlt_page on a page
ParsePageCall ==
    /\ pz.op = "none"
    /\ pz.kind = "page"
    /\ pz' = [pz EXCEPT !.op = "parse_page",
                        !.out = ParsePage(pz.type, FirstLatest, pz.balls)]
    /\ UNCHANGED baseVars
    /\ UNCHANGED managerVars
    /\ UNCHANGED typedVars

-----------------------------------------------------------------------------
(* CacheManager on its directory: both game types, every cache_type the     *)
(* program names.  save_cache is followed from open(file, 'w'), which        *)
(* empties the file, to the close that leaves the whole JSON text in it.     *)

PlainKey(kind) == [kind |-> kind, n |-> 0]

\* the cache types clear_expired_cache and clear_all_cache go through
ClearedKeys == {PlainKey("latest"), PlainKey("history"), PlainKey("statistics")}

DirKeys == ClearedKeys \cup CacheKeys

DirFiles == GameTypes \X DirKeys

EmptyDir == [f \in DirFiles |-> AbsentFile]

\* the file open(file, 'w') leaves until the text is written: it exists and
\* json.load raises on it
TruncatedFile == UnreadableFile

NoSave ==
    [phase |-> "idle", type |-> "ssq", key |-> LatestKey, data |-> <<>>,
     ts |-> 0, prev |-> AbsentFile, unlinked |-> FALSE, saves |-> 0]

NoManagerCall ==
    [op |-> "none", type |-> "none", key |-> LatestKey, at |-> 0,
     seen |-> NoneValue, valid |-> FALSE, wr |-> NoSave,
     pre |-> EmptyDir, post |-> EmptyDir]

ManagerIdle == cdir = EmptyDir /\ wr = NoSave /\ cz = NoManagerCall

\* clear_expired_cache: unlink what exists and is not valid, among ClearedKeys
ClearExpiredCache(dir, t) ==
    [f \in DirFiles |->
        IF f[2] \in ClearedKeys /\ dir[f].st # "absent" /\ ~IsCacheValid(dir[f], t)
        THEN AbsentFile ELSE dir[f]]

\* clear_all_cache(lottery_type): unlink what exists among ClearedKeys
ClearTypeCache(dir, type) ==
    [f \in DirFiles |->
        IF f[1] = type /\ f[2] \in ClearedKeys THEN AbsentFile ELSE dir[f]]

\* clear_all_cache(lottery_type=None): "" stands for None
ClearAllCache(dir, type) ==
    IF type # "" THEN ClearTypeCache(dir, type)
    ELSE ClearTypeCache(ClearTypeCache(dir, "ssq"), "dlt")

\* the save a reader of (type, key) runs into, if any
SaveOn(w, type, key) == IF w.type = type /\ w.key = key THEN w ELSE NoSave

\* the save in progress lost its file name to an unlink
Unlinks(pre, post, w) ==
    w.phase = "open" /\ pre[<<w.type, w.key>>].st # "absent"
                     /\ post[<<w.type, w.key>>].st = "absent"

\* save_cache up to open(cache_file, 'w'): cache_data is built, with its
\* timestamp, and the file is emptied
SaveOpen ==
    /\ wr.phase # "open"
    /\ wr.saves < MaxSaves
    /\ \E type \in GameTypes, key \in CacheKeys :
          /\ wr' = [phase |-> "open", type |-> type, key |-> key,
                    data |-> <<remoteLatest>>, ts |-> now,
                    prev |-> cdir[<<type, key>>], unlinked |-> FALSE,
                    saves |-> wr.saves + 1]
          /\ cdir' = [cdir EXCEPT ![<<type, key>>] = TruncatedFile]
    /\ cz' = NoManagerCall
    /\ UNCHANGED baseVars
    /\ UNCHANGED parserVars
    /\ UNCHANGED typedVars

\* json.dump and the close: the whole text is in the file (the file of an
\* unlinked name is gone with the close)
SaveWrite ==
    /\ wr.phase = "open"
    /\ cdir' = IF wr.unlinked THEN cdir
               ELSE [cdir EXCEPT ![<<wr.type, wr.key>>] = SaveCache(wr.data, wr.ts)]
    /\ wr' = [wr EXCEPT !.phase = "idle"]
    /\ cz' = NoManagerCall
    /\ UNCHANGED baseVars
    /\ UNCHANGED parserVars
    /\ UNCHANGED typedVars

\* the process dies between the open and the write
SaveCrash ==
    /\ wr.phase = "open"
    /\ wr' = [wr EXCEPT !.phase = "crashed"]
    /\ cz' = NoManagerCall
    /\ UNCHANGED cdir
    /\ UNCHANGED baseVars
    /\ UNCHANGED parserVars
    /\ UNCHANGED typedVars

LoadCacheCall ==
    /\ \E type \in GameTypes, key \in CacheKeys :
          cz' = [NoManagerCall EXCEPT
                    !.op = "load_cache", !.type = type, !.key = key, !.at = now,
                    !.seen = LoadCache(cdir[<<type, key>>]),
                    !.wr = SaveOn(wr, type, key)]
    /\ UNCHANGED <<cdir, wr>>
    /\ UNCHANGED baseVars
    /\ UNCHANGED parserVars
    /\ UNCHANGED typedVars

IsCacheValidCall ==
    /\ \E type \in GameTypes, key \in CacheKeys :
          cz' = [NoManagerCall EXCEPT
                    !.op = "is_cache_valid", !.type = type, !.key = key, !.at = now,
                    !.valid = IsCacheValid(cdir[<<type, key>>], now),
                    !.wr = SaveOn(wr, type, key)]
    /\ UNCHANGED <<cdir, wr>>
    /\ UNCHANGED baseVars
    /\ UNCHANGED parserVars
    /\ UNCHANGED typedVars

ClearExpiredCall ==
    /\ \E post \in {ClearExpiredCache(cdir, now)} :
          /\ cdir' = post
          /\ wr' = [wr EXCEPT !.unlinked = @ \/ Unlinks(cdir, post, wr)]
          /\ cz' = [NoManagerCall EXCEPT
                       !.op = "clear_expired_cache", !.at = now,
                       !.pre = cdir, !.post = post]
    /\ UNCHANGED baseVars
    /\ UNCHANGED parserVars
    /\ UNCHANGED typedVars

ClearAllCall ==
    /\ \E type \in GameTypes \cup {""} :
       \E post \in {ClearAllCache(cdir, type)} :
          /\ cdir' = post
          /\ wr' = [wr EXCEPT !.unlinked = @ \/ Unlinks(cdir, post, wr)]
          /\ cz' = [NoManagerCall EXCEPT
                       !.op = "clear_all_cache", !.type = type, !.at = now,
                       !.pre = cdir, !.post = post]
    /\ UNCHANGED baseVars
    /\ UNCHANGED parserVars
    /\ UNCHANGED typedVars

\* the clock advances
ManagerTick ==
    /\ now + TickHours <= MaxTime
    /\ now' = now + TickHours
    /\ cz' = NoManagerCall
    /\ UNCHANGED <<remoteLatest, hist, calls, newDraw, sp, spPrev, cache, fx, rt>>
    /\ UNCHANGED parserVars
    /\ UNCHANGED typedVars
    /\ UNCHANGED <<cdir, wr>>

-----------------------------------------------------------------------------
(* The acquisition operations called with a game type that is neither      *)
(* 'ssq' nor 'dlt'.  DataSpider looks the type up in API_URLS / BASE_URLS; *)
(* LotteryDataFetcher and LotteryAPIClient pass it on; CacheManager made a *)
(* directory for 'ssq' and for 'dlt' only.                                 *)

OtherTypes == {"qlc", "kl8", "SSQ"}

HasUrl(type) == type \in GameTypes

HasCacheDir(type) == type \in GameTypes

Returned(ret, requests) ==
    [ret |-> ret, requests |-> requests, writes |-> 0, raised |-> FALSE]

\* open(cache_file, 'w') under a directory that does not exist
RaisedInSave(requests) ==
    [ret |-> NoneValue, requests |-> requests, writes |-> 0, raised |-> TRUE]

\* LotteryDataFetcher.fetch_data for a type without cache directory: no file
\* of it exists, so the cache is neither valid nor loadable
FetchDataNoDir(periodsArg, resp, latest) ==
    LET api == ApiFetchData(resp, latest)
    IN  IF ~Truthy(api) THEN Returned(NoneValue, 1) ELSE RaisedInSave(1)

\* LotteryDataFetcher.fetch_latest for a type without cache directory
FetchLatestNoDir(resp, latest) ==
    LET got == ApiFetchLatest(resp, latest)
    IN  IF Truthy(got) THEN RaisedInSave(1) ELSE Returned(NoneValue, 1)

\* DataSpider.fetch_history for a type without URL
FetchHistoryNoUrl(periods) == Returned(SomeValue(<<>>), 0)

\* DataSpider.fetch_single for a type without URL
FetchSingleNoUrl(period) == Returned(NoneValue, 0)

\* DataSpider.update_to_latest for a type without URL: load_history finds no
\* file, get_latest_period returns None
UpdateToLatestNoUrl(existing) == Returned(SomeValue(existing), 0)

NoTypedCall ==
    [op |-> "none", type |-> "none", arg |-> 0, resp |-> NoResponse,
     ret |-> NoneValue, requests |-> 0, writes |-> 0, raised |-> FALSE,
     calls |-> 0]

Observed(op, type, arg, resp, r) ==
    [op |-> op, type |-> type, arg |-> arg, resp |-> resp, ret |-> r.ret,
     requests |-> r.requests, writes |-> r.writes, raised |-> r.raised,
     calls |-> uz.calls + 1]

TypedFetchDataCall ==
    /\ uz.calls < MaxTypedCalls
    /\ \E type \in OtherTypes, periods \in {0} \cup FetchPeriodsArgs :
       \E resp \in ApiResponses(EffectivePeriods(periods)) :
          /\ ~HasCacheDir(type)
          /\ uz' = Observed("fetch_data", type, periods, resp,
                            FetchDataNoDir(periods, resp, remoteLatest))
    /\ UNCHANGED baseVars
    /\ UNCHANGED parserVars
    /\ UNCHANGED managerVars

TypedFetchLatestCall ==
    /\ uz.calls < MaxTypedCalls
    /\ \E type \in OtherTypes, resp \in ApiResponses(1) :
          /\ ~HasCacheDir(type)
          /\ uz' = Observed("fetch_latest", type, 1, resp,
                            FetchLatestNoDir(resp, remoteLatest))
    /\ UNCHANGED baseVars
    /\ UNCHANGED parserVars
    /\ UNCHANGED managerVars

TypedFetchHistoryCall ==
    /\ uz.calls < MaxTypedCalls
    /\ \E type \in OtherTypes, periods \in PeriodsArgs :
          /\ ~HasUrl(type)
          /\ uz' = Observed("fetch_history", type, periods, NoResponse,
                            FetchHistoryNoUrl(periods))
    /\ UNCHANGED baseVars
    /\ UNCHANGED parserVars
    /\ UNCHANGED managerVars

TypedFetchSingleCall ==
    /\ uz.calls < MaxTypedCalls
    /\ \E type \in OtherTypes, period \in {remoteLatest - 1, remoteLatest} :
          /\ ~HasUrl(type)
          /\ uz' = Observed("fetch_single", type, period, NoResponse,
                            FetchSingleNoUrl(period))
    /\ UNCHANGED baseVars
    /\ UNCHANGED parserVars
    /\ UNCHANGED managerVars

TypedUpdateToLatestCall ==
    /\ uz.calls < MaxTypedCalls
    /\ \E type \in OtherTypes :
          /\ ~HasUrl(type)
          /\ uz' = Observed("update_to_latest", type, 0, NoResponse,
                            UpdateToLatestNoUrl(<<>>))
    /\ UNCHANGED baseVars
    /\ UNCHANGED parserVars
    /\ UNCHANGED managerVars

-----------------------------------------------------------------------------
(* CacheManager called from several threads, each on its own                *)
(* (lottery_type, cache_type).  Every save_cache is followed from its open  *)
(* to its close, so saves of different keys overlap; next to the directory  *)
(* the model keeps, for each key, the file its own calls alone would leave. *)

GetCacheFileByType(type, key) == <<type, LatestKey>>

\* _get_cache_file: cache_dir / lottery_type / "<cache_type>.json"
GetCacheFile(type, key) == <<type, key>>

\* the keys the threads work on: two kinds of one type, one kind of two types
KeyCalls ==
    {<<"ssq", LatestKey>>, <<"dlt", LatestKey>>} \cup
    {<<"ssq", k>> : k \in CacheKeys \ {LatestKey}}

\* the data argument of save_cache: the newest draw for "latest", a list of
\* two draws for a history key
KeyData(call) ==
    NewestDraws(remoteLatest, IF call[2].kind = "latest" THEN 1 ELSE 2)

KeySaveIdle == [phase |-> "idle", data |-> <<>>, ts |-> 0]

NoKeyCall ==
    [op |-> "none", call |-> <<"ssq", LatestKey>>,
     seen |-> NoneValue, seenAlone |-> NoneValue,
     valid |-> FALSE, validAlone |-> FALSE]

KeysIdle ==
    /\ cdir = EmptyDir
    /\ wr = [k \in KeyCalls |-> KeySaveIdle]
    /\ cz = [alone |-> [k \in KeyCalls |-> AbsentFile], last |-> NoKeyCall]

\* save_cache of one key up to open(cache_file, 'w')
KeySaveOpen ==
    /\ \E k \in KeyCalls :
          /\ wr[k].phase = "idle"
          /\ wr' = [wr EXCEPT ![k] = [phase |-> "open", data |-> KeyData(k),
                                      ts |-> now]]
          /\ cdir' = [cdir EXCEPT ![GetCacheFile(k[1], k[2])] = TruncatedFile]
          /\ cz' = [alone |-> [cz.alone EXCEPT ![k] = TruncatedFile],
                    last |-> NoKeyCall]
    /\ UNCHANGED baseVars
    /\ UNCHANGED parserVars
    /\ UNCHANGED typedVars

\* json.dump and the close of one key's save_cache
KeySaveWrite ==
    /\ \E k \in KeyCalls :
          /\ wr[k].phase = "open"
          /\ wr' = [wr EXCEPT ![k] = KeySaveIdle]
          /\ cdir' = [cdir EXCEPT ![GetCacheFile(k[1], k[2])] =
                                      SaveCache(wr[k].data, wr[k].ts)]
          /\ cz' = [alone |-> [cz.alone EXCEPT ![k] =
                                      SaveCache(wr[k].data, wr[k].ts)],
                    last |-> NoKeyCall]
    /\ UNCHANGED baseVars
    /\ UNCHANGED parserVars
    /\ UNCHANGED typedVars

KeyLoadCache ==
    /\ \E k \in KeyCalls :
          cz' = [cz EXCEPT !.last =
                    [NoKeyCall EXCEPT
                        !.op = "load_cache", !.call = k,
                        !.seen = LoadCache(cdir[GetCacheFile(k[1], k[2])]),
                        !.seenAlone = LoadCache(cz.alone[k])]]
    /\ UNCHANGED <<cdir, wr>>
    /\ UNCHANGED baseVars
    /\ UNCHANGED parserVars
    /\ UNCHANGED typedVars

KeyIsCacheValid ==
    /\ \E k \in KeyCalls :
          cz' = [cz EXCEPT !.last =
                    [NoKeyCall EXCEPT
                        !.op = "is_cache_valid", !.call = k,
                        !.valid = IsCacheValid(cdir[GetCacheFile(k[1], k[2])], now),
                        !.validAlone = IsCacheValid(cz.alone[k], now)]]
    /\ UNCHANGED <<cdir, wr>>
    /\ UNCHANGED baseVars
    /\ UNCHANGED parserVars
    /\ UNCHANGED typedVars

KeyTick ==
    /\ now + TickHours <= MaxTime
    /\ now' = now + TickHours
    /\ cz' = [cz EXCEPT !.last = NoKeyCall]
    /\ UNCHANGED <<remoteLatest, hist, calls, newDraw, sp, spPrev, cache, fx, rt>>
    /\ UNCHANGED parserVars
    /\ UNCHANGED typedVars
    /\ UNCHANGED <<cdir, wr>>

-----------------------------------------------------------------------------
(* run_analysis as a whole: the acquisition, the analysis and the message,  *)
(* then the webhook.  Everything runs inside one try block whose handler    *)
(* logs the exception and returns False.                                    *)

ShouldSendAlways(testMode) == TRUE

\* "if not test_mode:" guards the notification
ShouldSend(testMode) == ~testMode

\* config notification.wechat.webhook_url: missing, the placeholder of the
\* sample configuration, or a real address
WebhookUrls == {"", "YOUR_WEBHOOK_URL", "https://qyapi.weixin.qq.com/hook"}

WebhookUsable(url) == url # "" /\ url # "YOUR_WEBHOOK_URL"

\* the step of the body that raises, if any: the analyzers and the
\* recommendation generator, or the message builder
Faults == {"none", "analysis", "build_message"}

\* the body of the try block after the two acquisitions (got): exc tells
\* that an exception left it
RunAnalysisBody(got, testMode, fault, url, sendOk) ==
    LET base == [exc |-> FALSE, ret |-> FALSE, sends |-> 0, built |-> FALSE,
                 previous |-> Truthy(got.previous),
                 analysis |-> Truthy(got.analysis), cache |-> got.cache]
    IN  IF ~base.previous THEN base
        ELSE IF ~base.analysis THEN base
        ELSE IF fault = "analysis" THEN [base EXCEPT !.exc = TRUE]
        ELSE IF fault = "build_message" THEN [base EXCEPT !.exc = TRUE]
        ELSE IF ShouldSend(testMode)
             THEN IF ~WebhookUsable(url)
                  THEN [base EXCEPT !.built = TRUE]
                  ELSE [base EXCEPT !.built = TRUE, !.sends = 1, !.ret = sendOk]
             ELSE [base EXCEPT !.built = TRUE, !.ret = TRUE]

\* "except Exception": the handler logs and returns False; raised tells that
\* an exception reached the caller
ExceptHandler(body) ==
    [ret |-> IF body.exc THEN FALSE ELSE body.ret,
     raised |-> FALSE, caught |-> body.exc, sends |-> body.sends,
     built |-> body.built, previous |-> body.previous,
     analysis |-> body.analysis, cache |-> body.cache]

\* run_analysis, given what its two acquisitions returned
RunAnalysisWhole(got, testMode, fault, url, sendOk) ==
    ExceptHandler(RunAnalysisBody(got, testMode, fault, url, sendOk))

NoRun ==
    [op |-> "none", test |-> FALSE, url |-> "", sendOk |-> FALSE,
     ret |-> FALSE, raised |-> FALSE, caught |-> FALSE, sends |-> 0,
     built |-> FALSE, previous |-> FALSE, analysis |-> FALSE]

RunAnalysisWholeCall ==
    /\ \E resp1 \in ApiAnswers(LatestAsked(cache, now), 1) :
       \E resp2 \in ApiAnswers(
              Truthy(FetchLatest(cache, now, resp1, remoteLatest).ret)
              /\ HistoryAsked(cache, now, AnalysisPeriods + OverFetch),
              AnalysisPeriods + OverFetch) :
       \E testMode \in BOOLEAN, fault \in Faults, url \in WebhookUrls,
          sendOk \in BOOLEAN :
       \E got \in {RunAnalysis(cache, now, resp1, resp2, remoteLatest)} :
       \E r \in {RunAnalysisWhole(got, testMode, fault, url, sendOk)} :
          /\ cache' = r.cache
          /\ fx' = [op |-> "run_analysis", test |-> testMode, url |-> url,
                    sendOk |-> sendOk, ret |-> r.ret, raised |-> r.raised,
                    caught |-> r.caught, sends |-> r.sends, built |-> r.built,
                    previous |-> r.previous, analysis |-> r.analysis]
    /\ UNCHANGED <<remoteLatest, now, rt>>
    /\ UNCHANGED spiderVars
    /\ UNCHANGED parserVars
    /\ UNCHANGED typedVars
    /\ UNCHANGED managerVars

-----------------------------------------------------------------------------
(* The analyzers and the recommendation generator, on the records the API   *)
(* client parses.  A random choice is a choice among every value the call   *)
(* can return.  The reason and the stars of a recommendation are display    *)
(* texts and are left out.                                                  *)

\* _parse_blues: int(record['seven']), 0 for a missing or non-numeric field
ParseBlues(cell) == IF cell.digit THEN cell.v ELSE 0

\* _parse_backs: the numeric ones of the fields six and seven, sorted
ParseBacks(six, seven) == Sorted(CellInts(<<six, seven>>))

\* _parse_records, on the ball fields of one API record
ApiSsqRecord(reds, seven) ==
    [lottery_type |-> "ssq", red_balls |-> Sorted(reds),
     blue_ball |-> ParseBlues(seven)]

ApiDltRecord(fronts, six, seven) ==
    [lottery_type |-> "dlt", front_balls |-> Sorted(fronts),
     back_balls |-> ParseBacks(six, seven)]

\* SSQAnalyzer.MAX_BALL, DLTAnalyzer.MAX_BALL
MaxBall(type) == IF type = "ssq" THEN 33 ELSE 35

\* RecommendationGenerator.__init__
RedRange(type) == IF type = "ssq" THEN 1..33 ELSE 1..35
BlueRange(type) == IF type = "ssq" THEN 1..16 ELSE 1..12
RedCount(type) == IF type = "ssq" THEN 6 ELSE 5
BlueCount(type) == IF type = "ssq" THEN 1 ELSE 2

\* BaseAnalyzer._parse_data
AnalyzerReds(data) ==
    SubSeq([i \in 1..Len(data) |->
               IF data[i].lottery_type = "ssq" THEN data[i].red_balls
               ELSE data[i].front_balls], 1, Len(data))

\* self.blues, with an int wrapped as Counter counts it (once)
AnalyzerBlues(data) ==
    SubSeq([i \in 1..Len(data) |->
               IF data[i].lottery_type = "ssq" THEN <<data[i].blue_ball>>
               ELSE data[i].back_balls], 1, Len(data))

\* all_numbers.extend(balls) for every draw
RECURSIVE Flatten(_, _)
Flatten(lists, i) ==
    IF i > Len(lists) THEN <<>> ELSE lists[i] \o Flatten(lists, i + 1)

\* the keys of Counter(all_numbers), in the order of their first appearance
RECURSIVE DistinctFrom(_, _, _)
DistinctFrom(all, i, acc) ==
    IF i > Len(all) THEN acc
    ELSE DistinctFrom(all, i + 1,
                      IF all[i] \in Range(acc) THEN acc ELSE Append(acc, all[i]))

CountOf(all, x) == Cardinality({i \in 1..Len(all) : all[i] = x})

\* sorted(items, key=count, reverse=True): stable, ties stay in key order
RECURSIVE ByCountDescFrom(_, _, _, _)
ByCountDescFrom(keys, all, i, acc) ==
    IF i > Len(keys) THEN acc
    ELSE LET x == keys[i]
             p == Cardinality({j \in 1..Len(acc) :
                                  CountOf(all, acc[j]) >= CountOf(all, x)})
         IN  ByCountDescFrom(keys, all, i + 1,
                 SubSeq(acc, 1, p) \o <<x>> \o SubSeq(acc, p + 1, Len(acc)))

\* sorted(items, key=count)
RECURSIVE ByCountAscFrom(_, _, _, _)
ByCountAscFrom(keys, all, i, acc) ==
    IF i > Len(keys) THEN acc
    ELSE LET x == keys[i]
             p == Cardinality({j \in 1..Len(acc) :
                                  CountOf(all, acc[j]) <= CountOf(all, x)})
         IN  ByCountAscFrom(keys, all, i + 1,
                 SubSeq(acc, 1, p) \o <<x>> \o SubSeq(acc, p + 1, Len(acc)))

\* _get_hot_cold_numbers(counter, top_n=10)
HotNumbers(lists) ==
    LET all == Flatten(lists, 1)
    IN  Take(ByCountDescFrom(DistinctFrom(all, 1, <<>>), all, 1, <<>>), 10)

ColdNumbers(lists) ==
    LET all == Flatten(lists, 1)
    IN  Take(ByCountAscFrom(DistinctFrom(all, 1, <<>>), all, 1, <<>>), 10)

\* analyze_blue / analyze_back: 'hot_blue' / 'hot_back', the five most
\* frequent; no key at all on empty data
HotBlue(blues) ==
    LET all == Flatten(blues, 1)
    IN  Take(ByCountDescFrom(DistinctFrom(all, 1, <<>>), all, 1, <<>>), 5)

\* _calculate_missing_stats: every number starts at 0; the draws are walked
\* from index 0 on, a draw without the number adds one, a draw with it
\* resets the count
RECURSIVE MissingFrom(_, _, _, _)
MissingFrom(reds, i, max, missing) ==
    IF i > Len(reds) THEN missing
    ELSE MissingFrom(reds, i + 1, max,
             [num \in 1..max |->
                 IF num \notin Range(reds[i]) THEN missing[num] + 1 ELSE 0])

CalculateMissingStats(reds, max) ==
    MissingFrom(reds, 1, max, [num \in 1..max |-> 0])

\* sorted(xs) of a list without repetitions
RECURSIVE Ascending(_)
Ascending(S) ==
    IF S = {} THEN <<>>
    ELSE LET m == CHOOSE x \in S : \A y \in S : x <= y
         IN  <<m>> \o Ascending(S \ {m})

\* random.sample(population, k), as the set of the numbers drawn
Samples(population, k) == {T \in SUBSET population : Cardinality(T) = k}

\* _select_blue: the lists it can return
SelectBlue(type, hotBlue) ==
    IF type = "ssq"
    THEN IF hotBlue # <<>>
         THEN {<<c>> : c \in Range(Take(hotBlue, 5))}
         ELSE {<<c>> : c \in 1..16}
    ELSE LET candidates == IF hotBlue # <<>> THEN Range(Take(hotBlue, 8))
                           ELSE 1..12
         IN  IF Cardinality(candidates) >= 2
             THEN {Ascending(T) : T \in Samples(candidates, 2)}
             ELSE {Ascending(T) : T \in Samples(1..12, 2)}

\* _generate_hot_first: the red lists it can return
HotFirstReds(type, hot) ==
    LET available == IF Len(hot) < RedCount(type) THEN RedRange(type)
                     ELSE Range(Take(hot, 20))
    IN  {Ascending(T) : T \in Samples(available, RedCount(type))}

\* _generate_balanced: the red lists it can return
BalancedReds(type, hot, cold) ==
    LET half == RedCount(type) \div 2
        wanted == IF half < 1 THEN 1 ELSE half
        hot_count == IF Len(hot) < wanted THEN Len(hot) ELSE wanted
        cold_count == RedCount(type) - hot_count
        ColdSelected(hot_selected) ==
            IF cold_count > 0 /\ Len(cold) >= cold_count
            THEN LET available_cold == Range(cold) \ hot_selected
                 IN  IF available_cold # {}
                     THEN Samples(available_cold,
                                  Min(cold_count, Cardinality(available_cold)))
                     ELSE {{}}
            ELSE {{}}
        Filled(reds) ==
            IF Cardinality(reds) >= RedCount(type) THEN {reds}
            ELSE {reds \cup T :
                    T \in Samples(RedRange(type) \ reds,
                                  RedCount(type) - Cardinality(reds))}
    IN  UNION { UNION { {Ascending(R) : R \in Filled(h \cup c)} :
                        c \in ColdSelected(h) } :
                h \in Samples(Range(hot), Min(hot_count, Len(hot))) }

\* _calculate_score
CalculateScore(type, reds, hot) ==
    LET hot_count == Cardinality({i \in 1..Len(reds) :
                                     reds[i] \in Range(Take(hot, 15))})
        odd_count == Cardinality({i \in 1..Len(reds) : reds[i] % 2 = 1})
        middle == 1 + (MaxBall(type) - 1) \div 2
        big_count == Cardinality({i \in 1..Len(reds) : reds[i] > middle})
        has_consecutive == \E i \in 1..(Len(reds) - 1) : reds[i + 1] - reds[i] = 1
        score == hot_count * 10
                 + (IF 2 <= odd_count /\ odd_count <= 4 THEN 15 ELSE 0)
                 + (IF 2 <= big_count /\ big_count <= 4 THEN 15 ELSE 0)
                 + (IF has_consecutive THEN 10 ELSE 0)
    IN  Min(score, 100)

Recommendation(index, reds, blues, score) ==
    [index |-> index, reds |-> reds, blues |-> blues, score |-> score]

\* _generate_mixed_strategy picks one of these
Strategies == {"hot_first", "balanced"}

\* the draws given to the analyzer: the fields of the API records
SsqRecords ==
    {ApiSsqRecord(reds, seven) :
        reds \in {<<1, 2, 3, 4, 5, 6>>, <<7, 6, 5, 4, 3, 2>>},
        seven \in {DigitCell(16), DigitCell(7), TextCell}}

DltRecords ==
    {ApiDltRecord(fronts, cells[1], cells[2]) :
        fronts \in {<<1, 2, 3, 4, 5>>, <<35, 5, 4, 3, 2>>},
        cells \in {<<DigitCell(1), DigitCell(12)>>, <<DigitCell(12), TextCell>>,
                   <<TextCell, TextCell>>}}

AnalysisInputs(type) ==
    LET records == IF type = "ssq" THEN SsqRecords ELSE DltRecords
    IN  UNION {[1..n -> records] : n \in 1..MaxDraws}

NoAnalysis ==
    [op |-> "none", type |-> "ssq", data |-> <<>>, hot |-> <<>>, cold |-> <<>>,
     hot_blue |-> <<>>, missing |-> <<>>, index |-> 0,
     rec |-> Recommendation(0, <<>>, <<>>, 0)]

\* SSQAnalyzer / DLTAnalyzer on the data: analyze() and analyze_blue() /
\* analyze_back()
AnalyzeCall ==
    /\ pz.op = "none"
    /\ pz' = [pz EXCEPT
                !.op = "analyzed",
                !.hot = HotNumbers(AnalyzerReds(pz.data)),
                !.cold = ColdNumbers(AnalyzerReds(pz.data)),
                !.hot_blue = HotBlue(AnalyzerBlues(pz.data)),
                !.missing = CalculateMissingStats(AnalyzerReds(pz.data),
                                                  MaxBall(pz.type))]
    /\ UNCHANGED baseVars
    /\ UNCHANGED managerVars
    /\ UNCHANGED typedVars

\* one round of the loop of generate_recommendations(count, 'mixed')
GenerateRecommendation ==
    /\ pz.op \in {"analyzed", "generated"}
    /\ pz.index < MaxRecommendations
    /\ \E strategy \in Strategies :
       \E reds \in IF strategy = "hot_first" THEN HotFirstReds(pz.type, pz.hot)
                   ELSE BalancedReds(pz.type, pz.hot, pz.cold) :
       \E blues \in SelectBlue(pz.type, pz.hot_blue) :
          pz' = [pz EXCEPT
                    !.op = "generated",
                    !.index = @ + 1,
                    !.rec = Recommendation(pz.index + 1, reds, blues,
                                CalculateScore(pz.type, reds, pz.hot))]
    /\ UNCHANGED baseVars
    /\ UNCHANGED managerVars
    /\ UNCHANGED typedVars

-----------------------------------------------------------------------------
(* Specifications *)

\* the history file an earlier initialize_data(periods) leaves behind
PersistedHistory(periods) ==
    SubSeq([i \in 1..periods |-> ShortPeriod(FirstLatest - i + 1)], 1, periods)

Init ==
    /\ remoteLatest = FirstLatest
    /\ hist = <<>>
    /\ calls = 0
    /\ newDraw = FALSE
    /\ sp = NoCall
    /\ spPrev = Remembered(NoCall)
    /\ cache = [k \in CacheKeys |-> AbsentFile]
    /\ now = 0
    /\ fx = NoFetch
    /\ rt = RetryStart(MaxRetries)
    /\ pz = NoParse
    /\ ManagerIdle
    /\ uz = NoTypedCall

Next ==
    \/ UpdateToLatestCall
    \/ InitializeDataCall
    \/ Publish

Spec == Init /\ [][Next]_vars

FetcherInit ==
    /\ remoteLatest = FirstLatest
    /\ hist = PersistedHistory(AnalysisPeriods + OverFetch)
    /\ calls = 0
    /\ newDraw = FALSE
    /\ sp = NoCall
    /\ spPrev = Remembered(NoCall)
    /\ cache = [k \in CacheKeys |-> AbsentFile]
    /\ now = 0
    /\ fx = NoFetch
    /\ rt = RetryStart(MaxRetries)
    /\ pz = NoParse
    /\ ManagerIdle
    /\ uz = NoTypedCall

FetcherNext ==
    \/ FetchDataCall
    \/ FetchLatestCall
    \/ RunAnalysisCall
    \/ Tick
    \/ CorruptCache
    \/ PublishDraw

FetcherSpec == FetcherInit /\ [][FetcherNext]_vars

RetryInit ==
    /\ remoteLatest = FirstLatest
    /\ hist = <<>>
    /\ calls = 0
    /\ newDraw = FALSE
    /\ sp = NoCall
    /\ spPrev = Remembered(NoCall)
    /\ cache = [k \in CacheKeys |-> AbsentFile]
    /\ now = 0
    /\ fx = NoFetch
    /\ \E max \in 0..MaxRetriesArg : rt = RetryStart(max)
    /\ pz = NoParse
    /\ ManagerIdle
    /\ uz = NoTypedCall

RetryNext ==
    \/ RetryPace
    \/ RetryRequest
    \/ RetryExhausted

RetrySpec == RetryInit /\ [][RetryNext]_vars /\ WF_vars(RetryNext)


ParserInit ==
    /\ remoteLatest = FirstLatest
    /\ hist = <<>>
    /\ calls = 0
    /\ newDraw = FALSE
    /\ sp = NoCall
    /\ spPrev = Remembered(NoCall)
    /\ cache = [k \in CacheKeys |-> AbsentFile]
    /\ now = 0
    /\ fx = NoFetch
    /\ rt = RetryStart(MaxRetries)
    /\ \E type \in GameTypes :
          \/ \E rows \in TableInputs :
                pz = [NoParse EXCEPT !.kind = "table", !.type = type, !.rows = rows]
          \/ \E balls \in PageInputs :
                pz = [NoParse EXCEPT !.kind = "page", !.type = type, !.balls = balls]
    /\ ManagerIdle
    /\ uz = NoTypedCall

ParserNext ==
    \/ ParseTableCall
    \/ FetchHistoryParse
    \/ ParsePageCall

ParserSpec == ParserInit /\ [][ParserNext]_vars

ManagerInit ==
    /\ remoteLatest = FirstLatest
    /\ hist = <<>>
    /\ calls = 0
    /\ newDraw = FALSE
    /\ sp = NoCall
    /\ spPrev = Remembered(NoCall)
    /\ cache = [k \in CacheKeys |-> AbsentFile]
    /\ now = 0
    /\ fx = NoFetch
    /\ rt = RetryStart(MaxRetries)
    /\ pz = NoParse
    /\ ManagerIdle
    /\ uz = NoTypedCall

ManagerNext ==
    \/ SaveOpen
    \/ SaveWrite
    \/ SaveCrash
    \/ LoadCacheCall
    \/ IsCacheValidCall
    \/ ClearExpiredCall
    \/ ClearAllCall
    \/ ManagerTick

ManagerSpec == ManagerInit /\ [][ManagerNext]_vars


TypedInit ==
    /\ remoteLatest = FirstLatest
    /\ hist = <<>>
    /\ calls = 0
    /\ newDraw = FALSE
    /\ sp = NoCall
    /\ spPrev = Remembered(NoCall)
    /\ cache = [k \in CacheKeys |-> AbsentFile]
    /\ now = 0
    /\ fx = NoFetch
    /\ rt = RetryStart(MaxRetries)
    /\ pz = NoParse
    /\ ManagerIdle
    /\ uz = NoTypedCall

TypedNext ==
    \/ TypedFetchDataCall
    \/ TypedFetchLatestCall
    \/ TypedFetchHistoryCall
    \/ TypedFetchSingleCall
    \/ TypedUpdateToLatestCall
    \/ PublishDraw

TypedSpec == TypedInit /\ [][TypedNext]_vars

KeysInit ==
    /\ remoteLatest = FirstLatest
    /\ hist = <<>>
    /\ calls = 0
    /\ newDraw = FALSE
    /\ sp = NoCall
    /\ spPrev = Remembered(NoCall)
    /\ cache = [k \in CacheKeys |-> AbsentFile]
    /\ now = 0
    /\ fx = NoFetch
    /\ rt = RetryStart(MaxRetries)
    /\ pz = NoParse
    /\ KeysIdle
    /\ uz = NoTypedCall

KeysNext ==
    \/ KeySaveOpen
    \/ KeySaveWrite
    \/ KeyLoadCache
    \/ KeyIsCacheValid
    \/ KeyTick

KeysSpec == KeysInit /\ [][KeysNext]_vars

RunInit ==
    /\ remoteLatest = FirstLatest
    /\ hist = <<>>
    /\ calls = 0
    /\ newDraw = FALSE
    /\ sp = NoCall
    /\ spPrev = Remembered(NoCall)
    /\ cache = [k \in CacheKeys |-> AbsentFile]
    /\ now = 0
    /\ fx = NoRun
    /\ rt = RetryStart(MaxRetries)
    /\ pz = NoParse
    /\ ManagerIdle
    /\ uz = NoTypedCall

RunNext ==
    \/ RunAnalysisWholeCall
    \/ Tick

RunSpec == RunInit /\ [][RunNext]_vars

AnalyzerInit ==
    /\ remoteLatest = FirstLatest
    /\ hist = <<>>
    /\ calls = 0
    /\ newDraw = FALSE
    /\ sp = NoCall
    /\ spPrev = Remembered(NoCall)
    /\ cache = [k \in CacheKeys |-> AbsentFile]
    /\ now = 0
    /\ fx = NoFetch
    /\ rt = RetryStart(MaxRetries)
    /\ \E type \in GameTypes :
       \E data \in AnalysisInputs(type) :
          pz = [NoAnalysis EXCEPT !.type = type, !.data = data]
    /\ ManagerIdle
    /\ uz = NoTypedCall

AnalyzerNext ==
    \/ AnalyzeCall
    \/ GenerateRecommendation

AnalyzerSpec == AnalyzerInit /\ [][AnalyzerNext]_vars

-----------------------------------------------------------------------------
(* Properties of the rolling history (Spec) *)

NoDuplicates(s) == \A i, j \in 1..Len(s) : i # j => s[i] # s[j]

\* C1: the persisted rolling history has strictly decreasing periods from
\* index 0 onward, hence no duplicate period, whatever the remote source
\* answered to initialize_data and update_to_latest.
C1_HistoryStrictlyDecreasing ==
    \A i \in 1..(Len(hist) - 1) : PeriodInt(hist[i]) > PeriodInt(hist[i + 1])

Completed(outcome) == outcome \in {"updated", "up_to_date"}

\* C3: update_to_latest is idempotent.  Stated for two consecutive calls with
\* no draw published between them that both reached the source without a
\* failure and were given the same landing page and the same newest record:
\* the second call returns, and leaves persisted, the history the first
\* returned.
C3_UpdateIdempotent ==
    ( /\ sp.op = "update_to_latest"
      /\ spPrev.op = "update_to_latest"
      /\ ~sp.afterPublish
      /\ Completed(sp.outcome)
      /\ Completed(spPrev.outcome)
      /\ sp.latest = spPrev.latest
      /\ (sp.outcome = "updated" /\ spPrev.outcome = "updated" => sp.new = spPrev.new) )
    => (sp.ret = spPrev.ret /\ hist = spPrev.ret)

\* C4: a successful update_to_latest yields the new record at index 0 followed
\* by the prior history in its order, cut at the tail to length
\* min(previous_len + 1, W); from a prior history of W records without
\* duplicates and a record not yet in it, the previous tail record is gone and
\* every other prior record is kept.
C4_PrependTruncate ==
    (sp.op = "update_to_latest" /\ sp.outcome = "updated")
    => /\ Len(sp.ret) = Min(Len(sp.prior) + 1, WindowSize)
       /\ sp.ret[1] = sp.new
       /\ \A i \in 1..(Len(sp.ret) - 1) : sp.ret[i + 1] = sp.prior[i]
       /\ hist = sp.ret
       /\ ( /\ Len(sp.prior) = WindowSize
            /\ NoDuplicates(sp.prior)
            /\ sp.new \notin Range(sp.prior) )
          => /\ sp.prior[WindowSize] \notin Range(sp.ret)
             /\ \A i \in 1..(WindowSize - 1) : sp.prior[i] \in Range(sp.ret)

\* a genuinely new draw arrived on a full window
C4_Witness ==
    /\ sp.op = "update_to_latest"
    /\ sp.outcome = "updated"
    /\ Len(sp.prior) = WindowSize
    /\ NoDuplicates(sp.prior)
    /\ PeriodInt(sp.new) > PeriodInt(sp.prior[1])
    /\ sp.afterPublish

\* C5: when update_to_latest cannot discover the latest period, exhausts the
\* retries of the fetch of the newest record, or parses no record, it returns
\* the prior history and writes nothing.
C5_FailureKeepsHistory ==
    ( /\ sp.op = "update_to_latest"
      /\ sp.outcome \in {"no_latest", "fetch_failed", "parse_failed"} )
    => /\ sp.ret = sp.prior
       /\ ~sp.wrote
       /\ hist = sp.prior

\* the parse of the newest record failed on a history that has records
C5_Witness ==
    /\ sp.op = "update_to_latest"
    /\ sp.outcome = "parse_failed"
    /\ Len(sp.prior) > 0

-----------------------------------------------------------------------------
(* Properties of the fetcher and its cache (FetcherSpec) *)

\* an entry that is readable, stamped and younger than the TTL
ValidEntry(file, t) == file.st = "ok" /\ file.hasTs /\ t - file.ts < TtlHours

AcquisitionFailed(resp) == ~resp.ok \/ resp.n = 0

\* C2: in one run, the list get_analysis_data(periods=30) returns holds no
\* record with the period of the record fetch_latest() returned.  Stated for
\* the runs in which fetch_data returned at least two records.
C2_AnalysisExcludesLatest ==
    ( /\ fx.op = "run_analysis"
      /\ Truthy(fx.previous)
      /\ Truthy(fx.ret)
      /\ Len(fx.all.data) >= 2 )
    => \A i \in 1..Len(fx.ret.data) : fx.ret.data[i] # fx.previous.data[1]

\* C6: with a valid entry of at least `periods` records, fetch_data makes no
\* request and no cache write and returns the first `periods` records of it.
C6_CacheHitNoNetwork ==
    ( /\ fx.op = "fetch_data"
      /\ ValidEntry(fx.pre, fx.at)
      /\ Len(fx.pre.data) >= fx.periods )
    => /\ fx.requests = 0
       /\ fx.writes = 0
       /\ fx.ret = SomeValue(SubSeq(fx.pre.data, 1, fx.periods))
       /\ fx.post = fx.pre

\* a hit on an entry that holds more records than were asked for
C6_Witness ==
    /\ fx.op = "fetch_data"
    /\ ValidEntry(fx.pre, fx.at)
    /\ Len(fx.pre.data) > fx.periods
    /\ fx.at > fx.pre.ts

\* C7: when the network acquisition fails, fetch_data returns the records of
\* the entry of its key, expired or not (at most `periods` of them), and
\* leaves the entry as it was; it returns None only when the acquisition
\* failed and no readable entry exists.
C7_StaleFallback ==
    /\ ( /\ fx.op = "fetch_data"
         /\ fx.requests > 0
         /\ AcquisitionFailed(fx.resp) )
       => /\ fx.post = fx.pre
          /\ fx.writes = 0
          /\ IF fx.pre.st = "ok"
             THEN fx.ret = SomeValue(Take(fx.pre.data, fx.periods))
             ELSE fx.ret = NoneValue
    /\ (fx.op = "fetch_data" /\ ~fx.ret.some)
       => /\ fx.requests > 0
          /\ AcquisitionFailed(fx.resp)
          /\ fx.pre.st # "ok"

\* the request failed on an expired entry, which was returned
C7_Witness ==
    /\ fx.op = "fetch_data"
    /\ fx.requests > 0
    /\ ~fx.resp.ok
    /\ fx.pre.st = "ok"
    /\ fx.pre.hasTs
    /\ fx.at - fx.pre.ts >= TtlHours
    /\ fx.ret.some

\* C8: on a cache miss fetch_data first attempts update_to_latest (which
\* starts with a request for the landing page), and performs the bulk fetch
\* only when the local rolling history has fewer than `periods` records.
C8_UpdateBeforeBulkFetch ==
    ( /\ fx.op = "fetch_data"
      /\ ~(ValidEntry(fx.pre, fx.at) /\ Len(fx.pre.data) >= fx.periods) )
    => /\ fx.spiderRequests >= 1
       /\ Len(hist) >= fx.periods => fx.requests = 0

\* C9: is_cache_valid is true exactly of an entry that exists, is readable,
\* carries a timestamp and is younger than the TTL; an entry aged exactly the
\* TTL is invalid, and so is an absent one.
C9_ValidIffFresh ==
    \A k \in CacheKeys :
        /\ cache[k].st = "absent" => ~IsCacheValid(cache[k], now)
        /\ cache[k].st = "unreadable" => ~IsCacheValid(cache[k], now)
        /\ (cache[k].st = "ok" /\ ~cache[k].hasTs) => ~IsCacheValid(cache[k], now)
        /\ (cache[k].st = "ok" /\ cache[k].hasTs)
           => (IsCacheValid(cache[k], now) <=> now - cache[k].ts < TtlHours)
        /\ (cache[k].st = "ok" /\ cache[k].hasTs /\ now - cache[k].ts = TtlHours)
           => ~IsCacheValid(cache[k], now)

\* an entry aged exactly the TTL beside a younger one
C9_Witness ==
    /\ \E k \in CacheKeys :
          cache[k].st = "ok" /\ cache[k].hasTs /\ now - cache[k].ts = TtlHours
    /\ \E k \in CacheKeys :
          cache[k].st = "ok" /\ cache[k].hasTs /\ now - cache[k].ts < TtlHours

-----------------------------------------------------------------------------
(* Properties of _fetch_with_retry (RetrySpec) *)

AllRateLimited(seen) == \A i \in 1..Len(seen) : seen[i] = "ratelimit"

RetryBounded ==
    /\ rt.requests <= rt.max
    /\ rt.result \in {"pending", "content", "None"}
    /\ rt.pc = "returned"
       => /\ rt.result # "pending"
          /\ rt.result = "None" <=> (\A i \in 1..Len(rt.seen) : rt.seen[i] # "ok")
          /\ rt.result = "None" => rt.requests = rt.max
    /\ AllRateLimited(rt.seen)
       => /\ Len(rt.waits) = Len(rt.seen)
          /\ \A i \in 1..(Len(rt.waits) - 1) : rt.waits[i] < rt.waits[i + 1]

\* C10: one call of _fetch_with_retry makes at most max_retries requests,
\* returns, and returns None after the last failed attempt; under repeated
\* rate-limit signals its backoff waits are strictly increasing.
C10_RetryBoundedAndReturns == []RetryBounded /\ <>(rt.pc = "returned")

\* every attempt of a call with three retries was rate-limited
C10_Witness ==
    /\ rt.pc = "returned"
    /\ rt.result = "None"
    /\ rt.max = MaxRetries
    /\ AllRateLimited(rt.seen)
    /\ Len(rt.waits) = MaxRetries

\* C11: within one call, each wait made on a rate-limit signal is double the
\* wait made on the previous one (base * 2^attempt).
C11_ExponentialBackoff ==
    AllRateLimited(rt.seen)
    => \A i \in 1..(Len(rt.waits) - 1) : rt.waits[i + 1] = 2 * rt.waits[i]

-----------------------------------------------------------------------------
(* Properties of the record parsers (ParserSpec) *)

PrimaryOf(rec) == IF rec.lottery_type = "ssq" THEN rec.red_balls ELSE rec.front_balls

SecondaryOf(rec) ==
    IF rec.lottery_type = "ssq" THEN <<rec.blue_ball>> ELSE rec.back_balls

PrimaryCount(type) == IF type = "ssq" THEN 6 ELSE 5
SecondaryCount(type) == IF type = "ssq" THEN 1 ELSE 2
PrimaryMax(type) == IF type = "ssq" THEN 33 ELSE 35
SecondaryMax(type) == IF type = "ssq" THEN 16 ELSE 12

StrictlyAscendingWithin(s, top) ==
    /\ \A i \in 1..Len(s) : s[i] >= 1 /\ s[i] <= top
    /\ \A i \in 1..(Len(s) - 1) : s[i] < s[i + 1]

ValidDraw(rec) ==
    /\ Len(PrimaryOf(rec)) = PrimaryCount(rec.lottery_type)
    /\ Len(SecondaryOf(rec)) = SecondaryCount(rec.lottery_type)
    /\ StrictlyAscendingWithin(PrimaryOf(rec), PrimaryMax(rec.lottery_type))
    /\ StrictlyAscendingWithin(SecondaryOf(rec), SecondaryMax(rec.lottery_type))

\* C12: every record a parser emits (table or page, either game) has the
\* fixed number of primary and secondary numbers, each within its range and
\* strictly ascending; an input that would break this yields no record.
C12_RecordsWellFormed ==
    pz.op # "none" => \A i \in 1..Len(pz.out) : ValidDraw(pz.out[i])

WellFormedRow(row) ==
    /\ row.ncells >= 8
    /\ row.period.digit
    /\ \A i \in 1..7 : row.balls[i].digit

WellFormedPeriods(rows) ==
    LET kept == SelectSeq(SubSeq(rows, 3, Len(rows)), WellFormedRow)
    IN  [i \in 1..Len(kept) |-> kept[i].period.v]

\* C13: the table parse emits one record for each row after the first two
\* whose period cell is an integer and whose ball cells are all numeric, in
\* the table's order, and nothing for any other row; fetch_history returns
\* those records sorted by period, descending.
C13_OneRecordPerWellFormedRow ==
    /\ pz.op = "parse_table"
       => [i \in 1..Len(pz.out) |-> pz.out[i].period] = WellFormedPeriods(pz.rows)
    /\ pz.op = "fetch_history"
       => /\ Len(pz.out) = Len(WellFormedPeriods(pz.rows))
          /\ \A i \in 1..(Len(pz.out) - 1) : pz.out[i].period >= pz.out[i + 1].period

-----------------------------------------------------------------------------
(* Properties of the CacheManager on its directory (ManagerSpec) *)

Interleaved(w) == w.phase \in {"open", "crashed"}

\* C14: a load_cache or is_cache_valid that runs into a save_cache of its
\* key, or comes after a crash of one, sees the complete previous entry or
\* the complete new one, never an empty or partly written file.
C14_SaveAtomicForReaders ==
    /\ (cz.op = "load_cache" /\ Interleaved(cz.wr))
       => cz.seen \in {LoadCache(cz.wr.prev), SomeValue(cz.wr.data)}
    /\ (cz.op = "is_cache_valid" /\ Interleaved(cz.wr))
       => cz.valid \in {IsCacheValid(cz.wr.prev, cz.at),
                        IsCacheValid(SaveCache(cz.wr.data, cz.wr.ts), cz.at)}

\* C15: when clear_expired_cache returns, every cache entry that exists is
\* valid, the "history_<periods>" entries included, and the entries that
\* were valid are as they were.
C15_NoInvalidEntryAfterClear ==
    cz.op = "clear_expired_cache"
    => /\ \A f \in DirFiles :
             cz.post[f].st # "absent" => IsCacheValid(cz.post[f], cz.at)
       /\ \A f \in DirFiles :
             IsCacheValid(cz.pre[f], cz.at) => cz.post[f] = cz.pre[f]

\* C16: clear_all_cache(game_type) removes every entry of that game type,
\* whatever its cache kind, and leaves the other game type's entries as they
\* were; clear_all_cache() removes every entry of both.
C16_ClearAllRemovesEveryKind ==
    cz.op = "clear_all_cache"
    => \A f \in DirFiles :
          IF cz.type = "" \/ f[1] = cz.type
          THEN cz.post[f].st = "absent"
          ELSE cz.post[f] = cz.pre[f]

-----------------------------------------------------------------------------
(* Properties of fetch_latest (FetcherSpec) *)

\* C17: fetch_latest returns the cached record without a request when a
\* valid non-empty "latest" entry exists; otherwise it makes one request for
\* the newest record, overwrites the "latest" slot exactly when the request
\* succeeds, and leaves the slot as it was when it fails.
C17_FetchLatestFrame ==
    fx.op = "fetch_latest"
    => IF ValidEntry(fx.pre, fx.at) /\ fx.pre.data # <<>>
       THEN /\ fx.requests = 0
            /\ fx.writes = 0
            /\ fx.ret = SomeValue(fx.pre.data)
            /\ fx.post = fx.pre
       ELSE /\ fx.requests = 1
            /\ fx.periods = 1
            /\ IF AcquisitionFailed(fx.resp)
               THEN /\ fx.ret = NoneValue
                    /\ fx.writes = 0
                    /\ fx.post = fx.pre
               ELSE /\ fx.ret.some
                    /\ Len(fx.ret.data) = 1
                    /\ fx.writes = 1
                    /\ fx.post = SaveCache(fx.ret.data, fx.at)

\* the request failed on an expired slot, which was left as it was
C17_Witness ==
    /\ fx.op = "fetch_latest"
    /\ fx.pre.st = "ok"
    /\ fx.pre.hasTs
    /\ fx.at - fx.pre.ts >= TtlHours
    /\ fx.requests = 1
    /\ AcquisitionFailed(fx.resp)
    /\ fx.post = fx.pre

\* C18: when the "latest" entry is expired and the request fails while the
\* expired entry still exists, fetch_latest returns the stale entry; it
\* returns absent only when no entry exists.
C18_FetchLatestReturnsStale ==
    ( /\ fx.op = "fetch_latest"
      /\ fx.requests > 0
      /\ AcquisitionFailed(fx.resp)
      /\ fx.pre.st = "ok"
      /\ fx.pre.data # <<>> )
    => fx.ret = SomeValue(fx.pre.data)

-----------------------------------------------------------------------------
(* Properties of initialize_data (Spec) *)

\* C19: initialize_data returns a non-empty local history as it is, with no
\* request and no write; on an empty one it makes the bulk fetch and writes
\* the history file exactly when the fetch yields at least one record.
C19_InitializeFrame ==
    sp.op = "initialize_data"
    => IF sp.prior # <<>>
       THEN /\ sp.ret = sp.prior
            /\ sp.requests = 0
            /\ ~sp.wrote
            /\ hist = sp.prior
       ELSE /\ sp.requests >= 1
            /\ sp.wrote <=> sp.ret # <<>>
            /\ hist = sp.ret

\* the bulk fetch failed on an empty history: nothing was written
C19_Witness ==
    /\ sp.op = "initialize_data"
    /\ sp.prior = <<>>
    /\ sp.outcome = "fetch_failed"
    /\ sp.ret = <<>>
    /\ ~sp.wrote

-----------------------------------------------------------------------------
(* Properties of calls with an unsupported game type (TypedSpec) *)

\* C20: fetch_data, fetch_latest, fetch_history, fetch_single and
\* update_to_latest, called with a game type other than the two supported
\* ones, return absent or empty without a request, without a write and
\* without raising.
C20_UnsupportedTypeFailsFast ==
    uz.op # "none"
    => /\ uz.requests = 0
       /\ uz.writes = 0
       /\ ~uz.raised
       /\ ~Truthy(uz.ret)

-----------------------------------------------------------------------------
(* Properties of the fetcher on damaged cache files (FetcherSpec) *)

-----------------------------------------------------------------------------
(* The size of the history file (Spec) *)

\* C22: after initialize_data with any periods argument, and after
\* update_to_latest on any prior history, the history file holds at most
\* WindowSize records.
C22_HistoryWithinWindow == Len(hist) <= WindowSize

-----------------------------------------------------------------------------
(* Calls on different cache keys (KeysSpec) *)

\* C23: however save_cache, load_cache and is_cache_valid calls on different
\* (lottery_type, cache_type) keys interleave, every key's file is the one
\* its own calls alone would have left, every value read is the one read
\* when the key's calls run alone, and no other file appears.
C23_DistinctKeysIndependent ==
    /\ \A k \in KeyCalls : cdir[GetCacheFile(k[1], k[2])] = cz.alone[k]
    /\ \A f \in DirFiles \ KeyCalls : cdir[f] = AbsentFile
    /\ cz.last.seen = cz.last.seenAlone
    /\ cz.last.valid = cz.last.validAlone

\* a key is read back while the saves of two other keys are open
C23_Witness ==
    /\ cz.last.op = "load_cache"
    /\ cz.last.seen.some
    /\ \A k \in KeyCalls \ {cz.last.call} : wr[k].phase = "open"

-----------------------------------------------------------------------------
(* Properties of a whole run (RunSpec) *)

\* C24: run_analysis posts to the webhook at most once, and not at all in
\* test mode; when the previous draw or the analysis data could not be
\* obtained it posts nothing and returns False; no exception leaves it; it
\* returns True only after the message was built, in test mode, or after a
\* post that succeeded.
C24_RunNotifiesAtMostOnce ==
    fx.op = "run_analysis"
    => /\ fx.sends <= 1
       /\ fx.test => fx.sends = 0
       /\ (~fx.previous \/ ~fx.analysis) => (fx.sends = 0 /\ ~fx.ret)
       /\ ~fx.raised
       /\ fx.ret => /\ fx.built
                    /\ \/ fx.test
                       \/ fx.sends = 1 /\ fx.sendOk

\* a run outside test mode that posted its message and returned True
C24_Witness ==
    /\ fx.op = "run_analysis"
    /\ ~fx.test
    /\ fx.sends = 1
    /\ fx.ret

-----------------------------------------------------------------------------
(* Pacing and backoff inside _fetch_with_retry (RetrySpec) *)

\* C25: within one call every request, the first one included, comes right
\* after a pacing delay: when a request is about to be made one more delay
\* than requests has been taken, and otherwise as many.
C25_EveryRequestPaced ==
    rt.paced = rt.requests + (IF rt.pc = "request" THEN 1 ELSE 0)

\* a third request was made, after three pacing delays
C25_Witness ==
    /\ rt.requests = MaxRetries
    /\ rt.paced = MaxRetries
    /\ rt.pc = "returned"

\* C26: the wait after a transient error at attempt k is linear in k, and a
\* backoff wait is made only when another attempt follows: the wait after
\* attempt i is made only if i is not the last attempt allowed, whether the
\* attempt met a transient error or a rate-limit signal.
C26_BackoffOnlyBeforeNextAttempt ==
    \A i \in 1..Len(rt.waits) :
        /\ rt.seen[i] \in {"http_error", "timeout"}
           => rt.waits[i] = i * ErrorWait(0)
        /\ i < rt.max

-----------------------------------------------------------------------------
(* The analysis slice and the repeated fetch (FetcherSpec) *)

\* C27: for every non-empty result R of fetch_data(periods + 5),
\* get_analysis_data returns R[1 .. periods] in the same order: at most
\* `periods` records, without R[0], also when R holds one record only.
C27_AnalysisSliceOfResult ==
    ( /\ fx.op = "run_analysis"
      /\ Truthy(fx.all) )
    => /\ fx.ret.some
       /\ fx.ret.data = ExcludeLatest(fx.all.data, fx.periods)
       /\ Len(fx.ret.data) <= fx.periods
       /\ \A i \in 1..Len(fx.ret.data) : fx.ret.data[i] # fx.all.data[1]

\* C28: right after fetch_data returned records obtained from the API, and
\* while the entry it wrote is within the TTL, a second fetch_data with the
\* same arguments makes no request and returns the same records, whatever
\* the number of records the API had answered with.
C28_RepeatIsCacheHit ==
    ( /\ fx.op = "fetch_data"
      /\ fx.path = "fetched"
      /\ Truthy(fx.ret)
      /\ cache[HistoryKey(fx.periods)] = fx.post
      /\ now - fx.at < TtlHours )
    => \A resp \in ApiResponses(fx.periods) :
          LET again == FetchData(cache, now, fx.periods, resp, remoteLatest)
          IN  /\ again.requests = 0
              /\ again.ret = fx.ret

-----------------------------------------------------------------------------
(* Properties of the analysis and the recommendations (AnalyzerSpec) *)

\* the number of draws, counted from the most recent one, before the first
\* that holds n: all of them when none does
CurrentOmission(reds, n) ==
    LET with == {i \in 1..Len(reds) : n \in Range(reds[i])}
    IN  IF with = {} THEN Len(reds)
        ELSE (CHOOSE i \in with : \A j \in with : i <= j) - 1

\* C29: on draws given most recent first, _calculate_missing_stats gives
\* for every number n of 1..MAX_BALL its current omission: the number of
\* consecutive most recent draws without n.
C29_MissingIsCurrentOmission ==
    pz.op # "none"
    => \A n \in 1..MaxBall(pz.type) :
          pz.missing[n] = CurrentOmission(AnalyzerReds(pz.data), n)

\* C30: every recommendation holds red_count different primary numbers in
\* ascending order within the red range, blue_count secondary numbers within
\* the blue range (never 0), and a score from 0 to 100.
C30_RecommendationWellFormed ==
    pz.op = "generated"
    => /\ Len(pz.rec.reds) = RedCount(pz.type)
       /\ \A i \in 1..Len(pz.rec.reds) : pz.rec.reds[i] \in RedRange(pz.type)
       /\ \A i \in 1..(Len(pz.rec.reds) - 1) : pz.rec.reds[i] < pz.rec.reds[i + 1]
       /\ Len(pz.rec.blues) = BlueCount(pz.type)
       /\ \A i \in 1..Len(pz.rec.blues) : pz.rec.blues[i] \in BlueRange(pz.type)
       /\ 0 <= pz.rec.score /\ pz.rec.score <= 100


====
